---- MODULE Spec2Model ----
(***************************************************************************)
(* Model of the weather scripts dag_day_1.py, weather.py and dag_1.py:     *)
(* the data source (fetch_weather_data / get_weather_data), the __main__   *)
(* guard and the three analyze_weather_data functions.                     *)
(*                                                                         *)
(* Temperatures are integers in tenths of a degree Celsius (the archive    *)
(* API reports one decimal place); a mean is kept as the exact fraction    *)
(* num/den, so every comparison of the code is decided in exact            *)
(* arithmetic.  Positions in lists are 1-based.                            *)
(***************************************************************************)
EXTENDS Integers, Sequences, FiniteSets

VARIABLES script, pc, http, data, calls

vars == <<script, pc, http, data, calls>>

\* ------------------------------------------------------------------ bounds
\* Longest window given to an analyzer directly.
MaxDays == 3
\* Longest list in an HTTP response body of a whole script run.
MaxRespDays == 2
\* Number of consecutive analyzer calls on the same object.
MaxCalls == 2

\* Temperatures of a window, tenths of a degree: below, on and above the
\* fixed-normal thresholds of weather.py (20.0 and 32.0), and 15.0 apart so
\* that a day can sit exactly on the mean-relative threshold of dag_day_1.py.
Temps == {170, 200, 320, 350}
\* Temperatures of a response body of a whole script run.
RespTemps == {170, 350}

\* ------------------------------------------------------- program constants
\* dag_day_1.py ANOMALY_THRESHOLD_DEGREES = 5.0
ANOMALY_THRESHOLD_DEGREES == 50
\* weather.py NORMAL_MAX_TEMP_HYD = 29.5, NORMAL_MIN_TEMP_HYD = 22.5,
\* ANOMALY_THRESHOLD_DEGREES = 2.5
NORMAL_MAX_TEMP_HYD == 295
NORMAL_MIN_TEMP_HYD == 225
ANOMALY_THRESHOLD_DEGREES_HYD == 25
\* dag_1.py: deviation_from_avg > 2.0
SIGNIFICANT_DEVIATION == 20

\* JSON null / Python None / pandas NaN in a temperature cell.
None == -9999

Scripts == {"dag_day_1", "weather", "dag_1"}
ListScripts == {"dag_day_1", "weather"}

\* -------------------------------------------------------------- Python lists
\* Sequences over S of length 0..n.
SeqUpTo(S, n) == UNION {[1..k -> S] : k \in 0..n}

HasNone(xs) == \E i \in 1..Len(xs) : xs[i] = None

RECURSIVE MaxScanStopsEarly(_, _, _)
\* Mutant of MaxScan: the scan leaves out the last item.
MaxScanStopsEarly(xs, i, best) ==
    IF i >= Len(xs) THEN best
    ELSE MaxScanStopsEarly(xs, i + 1, IF xs[i] > best THEN xs[i] ELSE best)

RECURSIVE MaxScan(_, _, _)
\* max(xs): keep the first item, replace it by a later one only when the
\* later one is strictly greater.
MaxScan(xs, i, best) ==
    IF i > Len(xs) THEN best
    ELSE MaxScan(xs, i + 1, IF xs[i] > best THEN xs[i] ELSE best)

RECURSIVE MinScan(_, _, _)
MinScan(xs, i, best) ==
    IF i > Len(xs) THEN best
    ELSE MinScan(xs, i + 1, IF xs[i] < best THEN xs[i] ELSE best)

\* Outcome of max(xs): ValueError on an empty list, the item itself for a
\* one-item list (no comparison is made), TypeError as soon as None is
\* compared with anything.
PyMax(xs) ==
    IF Len(xs) = 0 THEN [error |-> "ValueError", value |-> None]
    ELSE IF Len(xs) = 1 THEN [error |-> "", value |-> xs[1]]
    ELSE IF HasNone(xs) THEN [error |-> "TypeError", value |-> None]
    ELSE [error |-> "", value |-> MaxScan(xs, 2, xs[1])]

PyMin(xs) ==
    IF Len(xs) = 0 THEN [error |-> "ValueError", value |-> None]
    ELSE IF Len(xs) = 1 THEN [error |-> "", value |-> xs[1]]
    ELSE IF HasNone(xs) THEN [error |-> "TypeError", value |-> None]
    ELSE [error |-> "", value |-> MinScan(xs, 2, xs[1])]

\* Mutant of ListIndex: the last position holding v.
ListIndexLast(xs, v) ==
    CHOOSE i \in 1..Len(xs) : xs[i] = v /\ \A j \in (i + 1)..Len(xs) : xs[j] # v

\* xs.index(v) for a v that occurs in xs: the first position holding v.
ListIndex(xs, v) ==
    CHOOSE i \in 1..Len(xs) : xs[i] = v /\ \A j \in 1..(i - 1) : xs[j] # v

RECURSIVE SumSeq(_, _)
SumSeq(xs, i) == IF i > Len(xs) THEN 0 ELSE xs[i] + SumSeq(xs, i + 1)

\* statistics.mean(xs): the exact fraction sum/len; TypeError on None.
Mean(xs) ==
    IF HasNone(xs) THEN [error |-> "TypeError", num |-> 0, den |-> 1]
    ELSE [error |-> "", num |-> SumSeq(xs, 1), den |-> Len(xs)]

\* ------------------------------------------------------------------ reports
\* What one analyzer call printed, and how it ended: "ok" (ran to its last
\* line), "rejected" (printed its no-data message and returned) or "raised"
\* (left by the exception named in error).
NoReport ==
    [status |-> "ok", error |-> "", records |-> <<>>, highest |-> <<>>,
     lowest |-> <<>>, avg_max |-> <<>>, avg_min |-> <<>>, fluctuation |-> <<>>,
     hot |-> <<>>, cold |-> <<>>, deviations |-> <<>>, none_msg |-> FALSE]

Raised(r, e) == [r EXCEPT !.status = "raised", !.error = e]

\* ------------------------------------------------------------- fetch results
\* What a fetch function returns: None, the parsed JSON object (a dict:
\* a function from the keys it holds), or a pandas DataFrame.
PyNone == [kind |-> "None"]
Dict(body) == [kind |-> "dict", body |-> body]

DailyKeys == {"time", "temperature_2m_max", "temperature_2m_min"}

\* The dates of an n-day window, in chronological order: day 1 .. day n.
Dates(n) == [i \in 1..n |-> i]

\* The 'daily' object of a well-populated response: three lists of one length.
Daily(max_temps, min_temps) ==
    [k \in DailyKeys |->
        IF k = "time" THEN Dates(Len(max_temps))
        ELSE IF k = "temperature_2m_max" THEN max_temps ELSE min_temps]

\* `not weather_data`: None and the empty dict are falsy.
Falsy(d) == d.kind = "None" \/ (d.kind = "dict" /\ DOMAIN d.body = {})

\* ------------------------------------- dag_day_1.py / weather.py: the analyzer
\* The records loop: one line per date; IndexError when a temperature list is
\* shorter than the list of dates.
PrintedRecords(dates, max_temps, min_temps) ==
    LET k == IF Len(max_temps) < Len(min_temps) THEN Len(max_temps) ELSE Len(min_temps)
        m == IF Len(dates) < k THEN Len(dates) ELSE k
    IN  [error |-> IF m < Len(dates) THEN "IndexError" ELSE "",
         lines |-> [i \in 1..m |-> <<dates[i], max_temps[i], min_temps[i]>>]]

\* Mutant of HotMeanRelative: a day on the threshold counts as hot.
HotMeanRelativeNonStrict(x, avg) ==
    x * avg.den >= avg.num + ANOMALY_THRESHOLD_DEGREES * avg.den
\* Mutant of ColdMeanRelative: the threshold is added instead of subtracted.
ColdMeanRelativeWrongSign(x, avg) ==
    x * avg.den < avg.num + ANOMALY_THRESHOLD_DEGREES * avg.den
\* Mutant of ColdFixedNormal: a day on the threshold counts as cold.
ColdFixedNormalNonStrict(x) == x <= NORMAL_MIN_TEMP_HYD - ANOMALY_THRESHOLD_DEGREES_HYD

\* dag_day_1.py: max_temps[i] > avg_max_temp + ANOMALY_THRESHOLD_DEGREES
HotMeanRelative(x, avg) == x * avg.den > avg.num + ANOMALY_THRESHOLD_DEGREES * avg.den
\* dag_day_1.py: min_temps[i] < avg_min_temp - ANOMALY_THRESHOLD_DEGREES
ColdMeanRelative(x, avg) == x * avg.den < avg.num - ANOMALY_THRESHOLD_DEGREES * avg.den
\* weather.py: max_temps[i] > NORMAL_MAX_TEMP_HYD + ANOMALY_THRESHOLD_DEGREES
HotFixedNormal(x) == x > NORMAL_MAX_TEMP_HYD + ANOMALY_THRESHOLD_DEGREES_HYD
\* weather.py: min_temps[i] < NORMAL_MIN_TEMP_HYD - ANOMALY_THRESHOLD_DEGREES
ColdFixedNormal(x) == x < NORMAL_MIN_TEMP_HYD - ANOMALY_THRESHOLD_DEGREES_HYD

IsHot(s, x, avg) == IF s = "dag_day_1" THEN HotMeanRelative(x, avg) ELSE HotFixedNormal(x)
IsCold(s, x, avg) == IF s = "dag_day_1" THEN ColdMeanRelative(x, avg) ELSE ColdFixedNormal(x)

\* Mutant of FlagAfterDay: the flag is assigned the day's result, so a day
\* without anomaly resets it.
FlagAfterDayReset(found, h, c) == h \/ c

\* The value of anomalies_found after a day whose hot / cold tests gave h / c.
FlagAfterDay(found, h, c) == found \/ h \/ c

RECURSIVE AnomalyScan(_, _, _, _, _, _, _, _)
\* The anomaly loop, from day i on; acc holds anomalies_found and what was
\* printed so far.  Comparing None with a number raises TypeError.
AnomalyScan(s, dates, max_temps, min_temps, avg_max, avg_min, i, acc) ==
    IF i > Len(dates) THEN acc
    ELSE IF max_temps[i] = None THEN [acc EXCEPT !.error = "TypeError"]
    ELSE
      LET h == IsHot(s, max_temps[i], avg_max)
          hot == IF h THEN Append(acc.hot, [date |-> dates[i], temp |-> max_temps[i]])
                 ELSE acc.hot
      IN  IF min_temps[i] = None
          THEN [acc EXCEPT !.hot = hot, !.found = acc.found \/ h, !.error = "TypeError"]
          ELSE
            LET c == IsCold(s, min_temps[i], avg_min)
                cold == IF c THEN Append(acc.cold, [date |-> dates[i], temp |-> min_temps[i]])
                        ELSE acc.cold
            IN  AnomalyScan(s, dates, max_temps, min_temps, avg_max, avg_min, i + 1,
                            [error |-> "", hot |-> hot, cold |-> cold,
                             found |-> FlagAfterDay(acc.found, h, c)])

\* Steps 4 of analyze_weather_data in dag_day_1.py (means, then the scan) and
\* in weather.py (the scan alone), continuing the report r.
Anomalies(s, dates, max_temps, min_temps, r) ==
    LET am == IF s = "dag_day_1" THEN Mean(max_temps) ELSE [error |-> "", num |-> 0, den |-> 1]
        an == IF s = "dag_day_1" THEN Mean(min_temps) ELSE [error |-> "", num |-> 0, den |-> 1]
        frac(a) == [num |-> a.num, den |-> a.den]
    IN  IF am.error # "" THEN Raised(r, am.error)
        ELSE IF an.error # "" THEN Raised(r, an.error)
        ELSE
          LET r1 == IF s = "dag_day_1"
                    THEN [r EXCEPT !.avg_max = <<frac(am)>>, !.avg_min = <<frac(an)>>]
                    ELSE r
              sc == AnomalyScan(s, dates, max_temps, min_temps, am, an, 1,
                                [error |-> "", hot |-> <<>>, cold |-> <<>>, found |-> FALSE])
              r2 == [r1 EXCEPT !.hot = sc.hot, !.cold = sc.cold]
          IN  IF sc.error # "" THEN Raised(r2, sc.error)
              ELSE [r2 EXCEPT !.none_msg = ~sc.found]

\* Steps 2 and 3: the extremes and their dates.
Extremes(s, dates, max_temps, min_temps, r) ==
    LET hi == PyMax(max_temps)
        lo == PyMin(min_temps)
    IN  IF hi.error # "" THEN Raised(r, hi.error)
        ELSE IF lo.error # "" THEN Raised(r, lo.error)
        ELSE IF ListIndex(max_temps, hi.value) > Len(dates) THEN Raised(r, "IndexError")
        ELSE IF ListIndex(min_temps, lo.value) > Len(dates) THEN Raised(r, "IndexError")
        ELSE Anomalies(s, dates, max_temps, min_temps,
                [r EXCEPT !.highest = <<[temp |-> hi.value,
                                         date |-> dates[ListIndex(max_temps, hi.value)]]>>,
                          !.lowest = <<[temp |-> lo.value,
                                        date |-> dates[ListIndex(min_temps, lo.value)]]>>])

\* analyze_weather_data(weather_data) of dag_day_1.py and of weather.py.
AnalyzeList(s, d) ==
    IF Falsy(d) \/ "daily" \notin DOMAIN d.body
    THEN [NoReport EXCEPT !.status = "rejected"]
    ELSE
      LET daily == d.body["daily"]
      IN  IF DailyKeys \ DOMAIN daily # {} THEN Raised(NoReport, "KeyError")
          ELSE
            LET dates == daily["time"]
                max_temps == daily["temperature_2m_max"]
                min_temps == daily["temperature_2m_min"]
                pr == PrintedRecords(dates, max_temps, min_temps)
                r == [NoReport EXCEPT !.records = pr.lines]
            IN  IF pr.error # "" THEN Raised(r, pr.error)
                ELSE Extremes(s, dates, max_temps, min_temps, r)

\* ------------------------------------------------- dag_1.py: the DataFrame
\* A DataFrame: its column names in order and, per column, its cells.
NRows(df) == IF Len(df.columns) = 0 THEN 0 ELSE Len(df.col[df.columns[1]])

\* df[name] = cells: replaces the column, or appends a new one.
SetColumn(df, name, cells) ==
    [kind |-> "df",
     columns |-> IF \E i \in 1..Len(df.columns) : df.columns[i] = name
                 THEN df.columns ELSE Append(df.columns, name),
     col |-> [c \in DOMAIN df.col \cup {name} |-> IF c = name THEN cells ELSE df.col[c]]]

\* pd.to_datetime of a date string, and Timestamp.strftime('%Y-%m-%d').
ToDatetime(d) == [ts |-> d]
Strftime(t) == t.ts

\* The rename of get_weather_data.
Renamed(k) ==
    IF k = "time" THEN "date"
    ELSE IF k = "temperature_2m_max" THEN "max_temp_celsius"
    ELSE IF k = "temperature_2m_min" THEN "min_temp_celsius" ELSE k

\* The part of get_weather_data after response.json(): None when 'daily' is
\* missing, and None (except Exception) when pd.DataFrame rejects lists of
\* unequal length or when there is no 'time' column to convert.
GetWeatherData(body) ==
    IF "daily" \notin DOMAIN body THEN PyNone
    ELSE
      LET daily == body["daily"]
          order == <<"time", "temperature_2m_max", "temperature_2m_min">>
          keys == SelectSeq(order, LAMBDA k : k \in DOMAIN daily)
      IN  IF \E a, b \in DOMAIN daily : Len(daily[a]) # Len(daily[b]) THEN PyNone
          ELSE IF "time" \notin DOMAIN daily THEN PyNone
          ELSE [kind |-> "df",
                columns |-> [i \in 1..Len(keys) |-> Renamed(keys[i])],
                col |-> [c \in {Renamed(k) : k \in DOMAIN daily} |->
                          IF c = "date"
                          THEN [i \in 1..Len(daily["time"]) |-> ToDatetime(daily["time"][i])]
                          ELSE IF c = "max_temp_celsius" THEN daily["temperature_2m_max"]
                          ELSE daily["temperature_2m_min"]]]

\* Series.idxmax() / idxmin(): NaN cells are skipped, the first row holding
\* the extreme is returned, and a column of NaN alone has no answer (the
\* lookup df.loc[...] that follows raises).
IdxMax(xs) ==
    LET rows == {i \in 1..Len(xs) : xs[i] # None}
    IN  IF rows = {} THEN 0
        ELSE CHOOSE i \in rows : \A j \in rows : xs[j] <= xs[i] /\ (j < i => xs[j] < xs[i])

IdxMin(xs) ==
    LET rows == {i \in 1..Len(xs) : xs[i] # None}
    IN  IF rows = {} THEN 0
        ELSE CHOOSE i \in rows : \A j \in rows : xs[j] >= xs[i] /\ (j < i => xs[j] > xs[i])

RECURSIVE SumSkipNa(_, _)
SumSkipNa(xs, i) ==
    IF i > Len(xs) THEN 0
    ELSE (IF xs[i] = None THEN 0 ELSE xs[i]) + SumSkipNa(xs, i + 1)

\* Series.mean(): the mean of the cells that are not NaN.
MeanSkipNa(xs) ==
    [num |-> SumSkipNa(xs, 1), den |-> Cardinality({i \in 1..Len(xs) : xs[i] # None})]

Abs(x) == IF x < 0 THEN 0 - x ELSE x

\* abs(max_temp - avg_max_temp) of one row, as a fraction; NaN stays NaN.
Deviation(x, avg) ==
    IF x = None THEN [num |-> None, den |-> 1]
    ELSE [num |-> Abs(x * avg.den - avg.num), den |-> avg.den]

\* deviation_from_avg > 2.0 (false on NaN).
Significant(dev) == dev.num # None /\ dev.num > SIGNIFICANT_DEVIATION * dev.den

\* The table analyze_weather_data prints first: df.to_string(index=False).
DfToString(df) == <<[columns |-> df.columns, col |-> df.col]>>

\* Anomaly 2 of dag_1.py, on a frame that already holds temp_fluctuation.
DeviationsDF(df, r) ==
    LET maxs == df.col["max_temp_celsius"]
        avg == MeanSkipNa(maxs)
        devs == [i \in 1..Len(maxs) |-> Deviation(maxs[i], avg)]
        df2 == SetColumn(df, "deviation_from_avg", devs)
        rows == SelectSeq([i \in 1..Len(maxs) |-> i], LAMBDA i : Significant(devs[i]))
        lines == [k \in 1..Len(rows) |->
                    [date |-> Strftime(df.col["date"][rows[k]]),
                     temp |-> maxs[rows[k]],
                     deviation |-> devs[rows[k]],
                     direction |-> IF maxs[rows[k]] * avg.den > avg.num
                                   THEN "above" ELSE "below"]]
    IN  [report |-> [r EXCEPT !.avg_max = <<avg>>, !.deviations = lines,
                              !.none_msg = (Len(rows) = 0)],
         data |-> df2]

\* Anomaly 1 of dag_1.py: the new column temp_fluctuation and its largest row.
FluctuationDF(df, r) ==
    LET maxs == df.col["max_temp_celsius"]
        mins == df.col["min_temp_celsius"]
        fl == [i \in 1..Len(maxs) |->
                 IF maxs[i] = None \/ mins[i] = None THEN None ELSE maxs[i] - mins[i]]
        df1 == SetColumn(df, "temp_fluctuation", fl)
        a == IdxMax(fl)
    IN  IF a = 0 THEN [report |-> Raised(r, "KeyError"), data |-> df1]
        ELSE DeviationsDF(df1,
               [r EXCEPT !.fluctuation = <<[value |-> fl[a],
                                            date |-> Strftime(df.col["date"][a])]>>])

\* analyze_weather_data(df) of dag_1.py: the report and the frame it leaves.
AnalyzeDF(d) ==
    IF d.kind = "None" \/ NRows(d) = 0
    THEN [report |-> [NoReport EXCEPT !.status = "rejected"], data |-> d]
    ELSE
      LET r == [NoReport EXCEPT !.records = DfToString(d)]
      IN  IF "max_temp_celsius" \notin DOMAIN d.col
          THEN [report |-> Raised(r, "KeyError"), data |-> d]
          ELSE
            LET h == IdxMax(d.col["max_temp_celsius"])
                r1 == [r EXCEPT !.highest = <<[temp |-> d.col["max_temp_celsius"][h],
                                               date |-> Strftime(d.col["date"][h])]>>]
            IN  IF h = 0 THEN [report |-> Raised(r, "KeyError"), data |-> d]
                ELSE IF "min_temp_celsius" \notin DOMAIN d.col
                THEN [report |-> Raised(r1, "KeyError"), data |-> d]
                ELSE
                  LET l == IdxMin(d.col["min_temp_celsius"])
                  IN  IF l = 0 THEN [report |-> Raised(r1, "KeyError"), data |-> d]
                      ELSE FluctuationDF(d,
                             [r1 EXCEPT !.lowest =
                                <<[temp |-> d.col["min_temp_celsius"][l],
                                   date |-> Strftime(d.col["date"][l])]>>])

\* ------------------------------------------------- the analyzer, called alone
\* The windows of n days an analyzer is called on: every day has a max and a
\* min temperature.
Windows(n) == {Daily(mx, mn) : mx \in [1..n -> Temps], mn \in [1..n -> Temps]}

\* The object a script hands to its analyzer for the response {'daily': daily}.
AnalyzerInput(s, daily) ==
    IF s = "dag_1" THEN GetWeatherData([k \in {"daily"} |-> daily])
    ELSE Dict([k \in {"daily"} |-> daily])

Init ==
    /\ script \in Scripts
    /\ pc = "analyzer"
    /\ http = "none"
    /\ \E n \in 0..MaxDays : \E w \in Windows(n) : data = AnalyzerInput(script, w)
    /\ calls = <<>>

\* One more call analyze_weather_data(weather_data) on the same dict.
CallAnalyzeList ==
    /\ pc = "analyzer"
    /\ script \in ListScripts
    /\ Len(calls) < MaxCalls
    /\ calls' = Append(calls, AnalyzeList(script, data))
    /\ UNCHANGED <<script, pc, http, data>>

\* One more call analyze_weather_data(df) on the same DataFrame.
CallAnalyzeDF ==
    /\ pc = "analyzer"
    /\ script = "dag_1"
    /\ Len(calls) < MaxCalls
    /\ calls' = Append(calls, AnalyzeDF(data).report)
    /\ data' = AnalyzeDF(data).data
    /\ UNCHANGED <<script, pc, http>>

Next == CallAnalyzeList \/ CallAnalyzeDF

Spec == Init /\ [][Next]_vars

\* ---------------------------------------------------------- a whole script run
\* A list of a response, or its absence: <<>> is a missing key, <<xs>> the list xs.
Cells == RespTemps \cup {None}
ListOptions == {<<>>} \cup {<<xs>> : xs \in SeqUpTo(Cells, MaxRespDays)}
TimeOptions == {<<>>} \cup {<<Dates(n)>> : n \in 0..MaxRespDays}

DailyOf(t, mx, mn) ==
    [k \in {x \in DailyKeys : \/ x = "time" /\ t # <<>>
                              \/ x = "temperature_2m_max" /\ mx # <<>>
                              \/ x = "temperature_2m_min" /\ mn # <<>>} |->
        IF k = "time" THEN t[1] ELSE IF k = "temperature_2m_max" THEN mx[1] ELSE mn[1]]

\* The JSON objects a 2xx response can carry: {}, an object without 'daily',
\* and objects whose 'daily' holds any of the three lists, of any lengths,
\* with null cells.
Bodies ==
    {<<>>, [k \in {"latitude"} |-> 0]} \cup
    {[k \in {"daily"} |-> DailyOf(t, mx, mn)] :
        t \in TimeOptions, mx \in ListOptions, mn \in ListOptions}

\* What the fetch function of script s returns for the parsed body.
FetchResult(s, body) == IF s = "dag_1" THEN GetWeatherData(body) ELSE Dict(body)

\* Mutant of MainGuard: the analyzer is called whatever the fetch returned.
MainGuardAlways(s, d) == TRUE

\* The guard of __main__: `if data:` in dag_day_1.py and weather.py,
\* `if weather_df is not None:` in dag_1.py.
MainGuard(s, d) == IF s = "dag_1" THEN d.kind # "None" ELSE ~Falsy(d)

RunInit ==
    /\ script \in Scripts
    /\ pc = "fetch"
    /\ http = "pending"
    /\ data = PyNone
    /\ calls = <<>>

\* requests.get or raise_for_status raises a RequestException: the except
\* clause prints the error and returns None.
FetchRaises ==
    /\ pc = "fetch"
    /\ http' = "RequestException"
    /\ data' = PyNone
    /\ pc' = "main"
    /\ UNCHANGED <<script, calls>>

\* The request succeeds and response.json() is some JSON object.
FetchResponds ==
    /\ pc = "fetch"
    /\ \E body \in Bodies : data' = FetchResult(script, body)
    /\ http' = "ok"
    /\ pc' = "main"
    /\ UNCHANGED <<script, calls>>

\* __main__ calls the analyzer on what the fetch returned.
MainAnalyzes ==
    /\ pc = "main"
    /\ MainGuard(script, data)
    /\ IF script = "dag_1"
       THEN /\ calls' = Append(calls, AnalyzeDF(data).report)
            /\ data' = AnalyzeDF(data).data
       ELSE /\ calls' = Append(calls, AnalyzeList(script, data))
            /\ data' = data
    /\ pc' = "done"
    /\ UNCHANGED <<script, http>>

\* __main__ skips the analyzer and the script ends.
MainSkips ==
    /\ pc = "main"
    /\ ~MainGuard(script, data)
    /\ pc' = "done"
    /\ UNCHANGED <<script, http, data, calls>>

RunNext == FetchRaises \/ FetchResponds \/ MainAnalyzes \/ MainSkips

SpecRun == RunInit /\ [][RunNext]_vars

\* ------------------------------------------------------------------ the claims
\* The window the analyzer was called on, read back from its argument.
IsFrame == data.kind = "df"
WinMax == IF IsFrame THEN data.col["max_temp_celsius"] ELSE data.body["daily"]["temperature_2m_max"]
WinMin == IF IsFrame THEN data.col["min_temp_celsius"] ELSE data.body["daily"]["temperature_2m_min"]
WinDate(i) == IF IsFrame THEN Strftime(data.col["date"][i]) ELSE data.body["daily"]["time"][i]
WinLen == Len(WinMax)

Largest(xs) == CHOOSE x \in {xs[i] : i \in 1..Len(xs)} : \A j \in 1..Len(xs) : xs[j] <= x
Smallest(xs) == CHOOSE x \in {xs[i] : i \in 1..Len(xs)} : \A j \in 1..Len(xs) : xs[j] >= x
FirstAt(xs, v) == CHOOSE i \in 1..Len(xs) : xs[i] = v /\ \A j \in 1..Len(xs) : xs[j] = v => i <= j
Total(xs) == LET RECURSIVE T(_)
                 T(k) == IF k = 0 THEN 0 ELSE T(k - 1) + xs[k]
             IN  T(Len(xs))
DatesOf(lines) == {lines[i].date : i \in 1..Len(lines)}
Completed(k) == calls[k].status = "ok"

\* C1: on every non-empty window, each of the three analyzers reports as
\* highest the maximum of the window's max temperatures and as lowest the
\* minimum of its min temperatures.
C1_ExtremesAreMaxAndMin ==
    \A k \in 1..Len(calls) :
        WinLen > 0 =>
            /\ Len(calls[k].highest) = 1 /\ Len(calls[k].lowest) = 1
            /\ calls[k].highest[1].temp = Largest(WinMax)
            /\ calls[k].lowest[1].temp = Smallest(WinMin)

\* A call on a window whose maximum and minimum are not on its first day.
C1_Witness ==
    /\ Len(calls) >= 1 /\ WinLen >= 2 /\ Completed(1)
    /\ calls[1].highest[1].temp > WinMax[1]
    /\ calls[1].lowest[1].temp < WinMin[1]

\* C2: the date reported with the highest (lowest) temperature is the date of
\* the earliest day of the window holding the maximum (minimum).
C2_TiesResolveToEarliestDay ==
    \A k \in 1..Len(calls) :
        WinLen > 0 =>
            /\ Len(calls[k].highest) = 1 /\ Len(calls[k].lowest) = 1
            /\ calls[k].highest[1].date = WinDate(FirstAt(WinMax, Largest(WinMax)))
            /\ calls[k].lowest[1].date = WinDate(FirstAt(WinMin, Smallest(WinMin)))

\* A call on a window where two days share the maximum and two the minimum.
C2_Witness ==
    /\ Len(calls) >= 1 /\ WinLen >= 2 /\ Completed(1)
    /\ \E i, j \in 1..WinLen : i < j /\ WinMax[i] = Largest(WinMax) /\ WinMax[j] = Largest(WinMax)
    /\ \E i, j \in 1..WinLen : i < j /\ WinMin[i] = Smallest(WinMin) /\ WinMin[j] = Smallest(WinMin)

\* C3: an analyzer call on an empty window ends with the analyzer's
\* invalid-input outcome, and no call ends with any other error.
C3_EmptyWindowIsInvalidInput ==
    \A k \in 1..Len(calls) :
        IF WinLen = 0 THEN calls[k].status = "rejected" ELSE calls[k].status = "ok"

\* C4: in dag_day_1.py the days reported hot are exactly those whose max
\* temperature is strictly above the mean max plus the threshold, and the
\* days reported cold exactly those whose min temperature is strictly below
\* the mean min minus the threshold, each test on its own.
C4_MeanRelativeAnomalies ==
    \A k \in 1..Len(calls) :
        (script = "dag_day_1" /\ WinLen > 0) =>
            /\ Completed(k)
            /\ DatesOf(calls[k].hot) =
                 {WinDate(i) : i \in {j \in 1..WinLen :
                     WinLen * WinMax[j] > Total(WinMax) + WinLen * ANOMALY_THRESHOLD_DEGREES}}
            /\ DatesOf(calls[k].cold) =
                 {WinDate(i) : i \in {j \in 1..WinLen :
                     WinLen * WinMin[j] < Total(WinMin) - WinLen * ANOMALY_THRESHOLD_DEGREES}}

\* A dag_day_1.py call that reports one day both hot and cold.
C4_Witness ==
    /\ script = "dag_day_1" /\ Len(calls) >= 1 /\ Completed(1)
    /\ DatesOf(calls[1].hot) \cap DatesOf(calls[1].cold) # {}

\* C5: in weather.py the days reported hot are exactly those whose max
\* temperature is strictly above the normal max plus the threshold, and the
\* days reported cold exactly those whose min temperature is strictly below
\* the normal min minus the threshold, whatever the rest of the window.
C5_FixedNormalAnomalies ==
    \A k \in 1..Len(calls) :
        (script = "weather" /\ WinLen > 0) =>
            /\ Completed(k)
            /\ DatesOf(calls[k].hot) =
                 {WinDate(i) : i \in {j \in 1..WinLen :
                     WinMax[j] > NORMAL_MAX_TEMP_HYD + ANOMALY_THRESHOLD_DEGREES_HYD}}
            /\ DatesOf(calls[k].cold) =
                 {WinDate(i) : i \in {j \in 1..WinLen :
                     WinMin[j] < NORMAL_MIN_TEMP_HYD - ANOMALY_THRESHOLD_DEGREES_HYD}}

\* A weather.py call on a window with a day above the hot limit (reported), a
\* day exactly on the cold limit (not reported) and a day below it (reported).
C5_Witness ==
    /\ script = "weather" /\ Len(calls) >= 1 /\ Completed(1)
    /\ calls[1].hot # <<>> /\ calls[1].cold # <<>>
    /\ \E i \in 1..WinLen :
          /\ WinMin[i] = NORMAL_MIN_TEMP_HYD - ANOMALY_THRESHOLD_DEGREES_HYD
          /\ WinDate(i) \notin DatesOf(calls[1].cold)

\* C6: two consecutive analyzer calls on the same object give identical reports.
C6_SecondCallSameReport ==
    Len(calls) >= 2 => calls[2] = calls[1]

\* C9: when the anomaly scan of dag_day_1.py or weather.py ends, the
\* no-anomalies message is printed exactly when no day was reported hot or cold.
C9_NoAnomalyMessageIffNoneFlagged ==
    \A k \in 1..Len(calls) :
        (script \in ListScripts /\ Completed(k)) =>
            (calls[k].none_msg <=> (calls[k].hot = <<>> /\ calls[k].cold = <<>>))

\* A completed scan whose first day was reported and whose last day was not.
C9_Witness ==
    /\ script \in ListScripts /\ Len(calls) >= 1 /\ Completed(1) /\ WinLen >= 2
    /\ WinDate(1) \in DatesOf(calls[1].hot) \cup DatesOf(calls[1].cold)
    /\ WinDate(WinLen) \notin DatesOf(calls[1].hot) \cup DatesOf(calls[1].cold)
    /\ ~calls[1].none_msg

\* C10: in dag_day_1.py and weather.py, when some day is reported hot the day
\* reported as highest is reported hot, and when some day is reported cold the
\* day reported as lowest is reported cold; in dag_day_1.py no day holding the
\* smallest max temperature is reported hot and no day holding the largest min
\* temperature is reported cold.
C10_ExtremesConsistentWithAnomalies ==
    \A k \in 1..Len(calls) :
        (script \in ListScripts /\ Completed(k)) =>
            /\ calls[k].hot # <<>> => calls[k].highest[1].date \in DatesOf(calls[k].hot)
            /\ calls[k].cold # <<>> => calls[k].lowest[1].date \in DatesOf(calls[k].cold)
            /\ script = "dag_day_1" =>
                 \A i \in 1..WinLen :
                    /\ WinMax[i] = Smallest(WinMax) => WinDate(i) \notin DatesOf(calls[k].hot)
                    /\ WinMin[i] = Largest(WinMin) => WinDate(i) \notin DatesOf(calls[k].cold)

\* A dag_day_1.py call reporting a hot day and a cold day that are not the same day.
C10_Witness ==
    /\ script = "dag_day_1" /\ Len(calls) >= 1 /\ Completed(1)
    /\ calls[1].hot # <<>> /\ calls[1].cold # <<>>
    /\ calls[1].highest[1].date # calls[1].lowest[1].date

\* Every date of the fetched window has a number as max and as min temperature.
Populated(d) ==
    IF d.kind = "df"
    THEN /\ {"max_temp_celsius", "min_temp_celsius"} \subseteq DOMAIN d.col
         /\ ~HasNone(d.col["max_temp_celsius"]) /\ ~HasNone(d.col["min_temp_celsius"])
    ELSE /\ d.kind = "dict" /\ "daily" \in DOMAIN d.body
         /\ DailyKeys \subseteq DOMAIN d.body["daily"]
         /\ \A a \in DailyKeys : Len(d.body["daily"][a]) = Len(d.body["daily"]["time"])
         /\ ~HasNone(d.body["daily"]["temperature_2m_max"])
         /\ ~HasNone(d.body["daily"]["temperature_2m_min"])

\* C7: whatever the response, a window whose extremes the analyzer goes on to
\* compute and report has a numeric max and min temperature for every date.
C7_AnalyzerNeverGetsPartialWindow ==
    \A k \in 1..Len(calls) : calls[k].highest # <<>> => Populated(data)

\* C8: after a RequestException the fetch result is None and the run never
\* calls the analyzer.
C8_FailedFetchSkipsAnalyzer ==
    http = "RequestException" => (data = PyNone /\ calls = <<>>)

\* A run that ended after its request raised.
C8_Witness == http = "RequestException" /\ pc = "done" /\ calls = <<>>

====
